---- MODULE Spec2Model ----
(***************************************************************************)
(* A model of the GHCN columnizing pipeline of gcos_columnize.go: the line *)
(* parser, the bounded concurrent ingest (dispatcher, file workers, one    *)
(* consumer), the per-year gob buffers with their staging files, and the   *)
(* sort-and-emit stage.                                                    *)
(*                                                                         *)
(* Conventions.  A numeric text field is a record [ok, n]: ok says whether *)
(* strconv can parse the text, n is the number it denotes.  A float64 is   *)
(* held in fixed point, as a whole number of tenths (the raw values are    *)
(* whole numbers, so v and v/10 are both exact).  Goroutine 0 is main,     *)
(* goroutine w >= 1 is the processFile task of the w-th input file.        *)
(***************************************************************************)
EXTENDS Integers, Sequences, FiniteSets, Bags, TLC

\* ------------------------------------------------------------------ bounds
\* Largest semaphore capacity (sem_size) a run is started with.
MaxSem == 2
\* Largest flush threshold (buf_size) a run is started with.
MaxBuf == 2
\* Number of years set up by processRaw (the code sets up 1833..2016).
NumYears == 2
\* Number of 8-byte daily fields of the lines given to the parser alone.
NumDays == 2

\* ------------------------------------------------------- program constants
FirstYear == 1833
eltype == "TMAX"
\* for year := 1833; year <= 2016; year++
Years_Short == FirstYear .. (FirstYear + NumYears - 2)
Years == FirstYear .. (FirstYear + NumYears - 1)

\* Station ids of the model, in the order Go's string comparison gives them.
Stations == <<"ACW00011604", "USC00123456">>
IdRank(id) == CHOOSE i \in 1..Len(Stations) : Stations[i] = id
\* a[i].Id < a[j].Id on Go strings
StrLess(a, b) == IdRank(a) < IdRank(b)

\* ------------------------------------------------------------ input lines
Num(n) == [ok |-> TRUE, n |-> n]
Bad == [ok |-> FALSE, n |-> 0]
\* One 8-byte daily field: 5 bytes of value text, then the three flag bytes.
Field(v, m, q) == [v |-> v, m |-> m, q |-> q, s |-> " "]
Fld(n) == Field(Num(n), " ", " ")
\* One line: bytes 0-10 id, 11-14 year, 15-16 month, 17-20 element, then fields.
Line(id, year, month, el, F) ==
    [Id |-> id, Year |-> year, Month |-> month, El |-> el, F |-> F]

\* len(line)
LineLen(line) == 21 + 8 * Len(line.F)
\* line[off] for an offset that falls on a flag byte of a daily field
FlagByte(line, off) ==
    LET k == ((off - 21) \div 8) + 1
        r == (off - 21) % 8
    IN  IF r = 5 THEN line.F[k].m ELSE IF r = 6 THEN line.F[k].q ELSE line.F[k].s
\* line[pos:pos+5] with the leading blanks trimmed
ValueText(line, pos) == line.F[((pos - 21) \div 8) + 1].v

\* strconv.Atoi: the number, or an error
Atoi(t) == [ok |-> t.ok, n |-> IF t.ok THEN t.n ELSE 0]
\* strconv.ParseFloat: the float64 (in tenths), or an error
ParseFloat_Lenient(t) == [ok |-> TRUE, n |-> IF t.ok THEN 10 * t.n ELSE 0]
ParseFloat(t) == [ok |-> t.ok, n |-> IF t.ok THEN 10 * t.n ELSE 0]

\* --------------------------------------------------------------- the parser
rec_t_Swapped(id, year, month, day, value) ==
    [Id |-> id, Year |-> year, Month |-> day, Day |-> month, Value |-> value]
rec_t(id, year, month, day, value) ==
    [Id |-> id, Year |-> year, Month |-> month, Day |-> day, Value |-> value]

\* eltype_val := line[17:21]; the line is processed when it equals eltype
ElementMatches_Any(line) == TRUE
ElementMatches(line) == line.El = eltype

\* "Skip if low quality": the test made for the field at pos
LowQuality(line, pos) == FlagByte(line, 26) # " "

\* The loop of parse from offset pos on: the records sent on rec_chan, in
\* order, and whether the loop ends in a panic (after sending them).
RECURSIVE parseFrom(_, _, _, _)
parseFrom(line, year, month, pos) ==
    IF pos >= LineLen(line) THEN [recs |-> <<>>, panic |-> FALSE]
    ELSE IF LowQuality(line, pos) THEN parseFrom(line, year, month, pos + 8)
    ELSE LET v == ParseFloat(ValueText(line, pos)) IN
         IF ~v.ok THEN [recs |-> <<>>, panic |-> TRUE]
         ELSE IF v.n = 10 * (-9999) THEN parseFrom(line, year, month, pos + 8)
         ELSE LET day == ((pos - 21) \div 8) + 1
                  r == rec_t(line.Id, year, month, day, v.n \div 10)
                  rest == parseFrom(line, year, month, pos + 8)
              IN  [recs |-> <<r>> \o rest.recs, panic |-> rest.panic]

parse(line) ==
    LET year == Atoi(line.Year)
        month == Atoi(line.Month)
    IN  IF ~year.ok \/ ~month.ok THEN [recs |-> <<>>, panic |-> TRUE]
        ELSE parseFrom(line, year.n, month.n, 21)

\* ------------------------------------------------------------------ gob
\* What travels in year_buf and raw.bin: one type descriptor, written by an
\* encoder before its first value, then one message per value.  A value
\* message leaves out the fields that hold the zero value of their type.
ZeroRec == rec_t("", 0, 0, 0, 0)
OmittedFields(r) ==
    {f \in {"Id", "Year", "Month", "Day", "Value"} : r[f] = ZeroRec[f]}
TypeMsg == [kind |-> "type", omit |-> {}, r |-> ZeroRec]
ValueMsg(r) == [kind |-> "value", omit |-> OmittedFields(r), r |-> r]

\* year_gob[year].Encode(r): the bytes appended to year_buf[year]
GobEncode(typeSent, r) ==
    IF typeSent THEN <<ValueMsg(r)>> ELSE <<TypeMsg, ValueMsg(r)>>

\* dec.Decode(&z) of one value message into the variable z
GobDecodeValue(msg, z) ==
    [f \in {"Id", "Year", "Month", "Day", "Value"} |->
        IF f \in msg.omit THEN z[f] ELSE msg.r[f]]

\* The decoding loop of doSortWrite over the whole file: x, or an error when
\* a value comes before the type descriptor or the descriptor comes twice.
RECURSIVE GobDecodeFrom(_, _)
GobDecodeFrom(bytes, typeSeen) ==
    IF bytes = <<>> THEN [ok |-> TRUE, x |-> <<>>]
    ELSE LET msg == Head(bytes) IN
         IF msg.kind = "type"
         THEN IF typeSeen THEN [ok |-> FALSE, x |-> <<>>]
              ELSE GobDecodeFrom(Tail(bytes), TRUE)
         ELSE IF ~typeSeen THEN [ok |-> FALSE, x |-> <<>>]
              ELSE LET rest == GobDecodeFrom(Tail(bytes), TRUE)
                   IN  [ok |-> rest.ok,
                        x |-> <<GobDecodeValue(msg, ZeroRec)>> \o rest.x]
GobDecodeAll_NoEOF(bytes) ==
    IF bytes = <<>> THEN [ok |-> FALSE, x |-> <<>>] ELSE GobDecodeFrom(bytes, FALSE)
GobDecodeAll(bytes) == GobDecodeFrom(bytes, FALSE)

\* ------------------------------------------------------------------ flush
\* fid.Write on a file opened with O_APPEND: the new content of raw.bin
FlushFile_Truncating(file, buf) == buf
FlushFile(file, buf) == file \o buf
\* year_buf[year].Truncate(0): the new content of the buffer
FlushBuf_Kept(buf) == buf
FlushBuf(buf) == <<>>

\* ------------------------------------------------------------------- sort
Less_NoMonth(a, b) ==
    IF StrLess(a.Id, b.Id) THEN TRUE
    ELSE IF StrLess(b.Id, a.Id) THEN FALSE
    ELSE IF a.Year < b.Year THEN TRUE
    ELSE IF a.Year > b.Year THEN FALSE
    ELSE IF a.Day < b.Day THEN TRUE
    ELSE IF a.Day > b.Day THEN FALSE
    ELSE FALSE
Less(a, b) ==
    IF StrLess(a.Id, b.Id) THEN TRUE
    ELSE IF StrLess(b.Id, a.Id) THEN FALSE
    ELSE IF a.Year < b.Year THEN TRUE
    ELSE IF a.Year > b.Year THEN FALSE
    ELSE IF a.Month < b.Month THEN TRUE
    ELSE IF a.Month > b.Month THEN FALSE
    ELSE IF a.Day < b.Day THEN TRUE
    ELSE IF a.Day > b.Day THEN FALSE
    ELSE FALSE

\* sort.Sort on a slice this short is an insertion sort: each element moves
\* left while it is Less than its left neighbour.
RECURSIVE Insert(_, _)
Insert(s, r) ==
    IF s = <<>> THEN <<r>>
    ELSE IF Less(r, s[Len(s)])
         THEN Append(Insert(SubSeq(s, 1, Len(s) - 1), r), s[Len(s)])
         ELSE Append(s, r)
RECURSIVE InsertionSort(_)
InsertionSort(x) ==
    IF x = <<>> THEN <<>>
    ELSE Insert(InsertionSort(SubSeq(x, 1, Len(x) - 1)), x[Len(x)])
SortRecs_Unsorted(x) == x
SortRecs(x) == InsertionSort(x)

\* fmt.Sprintf("%4d-%02d-%02d", y.Year, y.Month, y.Day): the three numbers
\* in the order they are printed
DateOf_DayFirst(y) == <<y.Year, y.Day, y.Month>>
DateOf(y) == <<y.Year, y.Month, y.Day>>

\* The three arrays doSortWrite fills from the sorted slice x
Columns(x) ==
    [ids    |-> [i \in 1..Len(x) |-> x[i].Id],
     values |-> [i \in 1..Len(x) |-> x[i].Value],
     dates  |-> [i \in 1..Len(x) |-> DateOf(x[i])]]
NoOutput == [ids |-> <<>>, values |-> <<>>, dates |-> <<>>]

\* ----------------------------------------------------------------- inputs
\* The input directories a run is started on: each a sequence of files, each
\* file a sequence of lines.
A == Stations[1]
B == Stations[2]
Y1 == Num(FirstYear)
Y2 == Num(FirstYear + 1)

\* Two stations, two years, months out of order, a TMIN line, a missing
\* value and a zero value.
InOrder ==
    << << Line(B, Y1, Num(2), "TMAX", <<Fld(67), Fld(-9999)>>),
          Line(B, Y1, Num(1), "TMAX", <<Fld(0), Fld(71)>>),
          Line(B, Y1, Num(1), "TMIN", <<Fld(5)>>) >>,
       << Line(A, Y2, Num(1), "TMAX", <<Fld(12)>>),
          Line(A, Y1, Num(3), "TMAX", <<Fld(-5)>>) >> >>
\* The same station and date in two files, with different values.
InDuplicate ==
    << << Line(A, Y1, Num(1), "TMAX", <<Fld(10)>>) >>,
       << Line(A, Y1, Num(1), "TMAX", <<Fld(20)>>) >> >>
\* Three files.
InThree ==
    << << Line(B, Y1, Num(1), "TMAX", <<Fld(30)>>) >>,
       << Line(A, Y1, Num(2), "TMAX", <<Fld(31)>>) >>,
       << Line(A, Y2, Num(1), "TMAX", <<Fld(32)>>) >> >>
\* Three files of one station and year, two daily values each.
InWide ==
    << << Line(A, Y1, Num(3), "TMAX", <<Fld(40), Fld(41)>>) >>,
       << Line(A, Y1, Num(2), "TMAX", <<Fld(42), Fld(43)>>) >>,
       << Line(A, Y1, Num(1), "TMAX", <<Fld(44), Fld(45)>>) >> >>
\* Flag bytes: a quality flag on day 2 only; a flag at byte 26 (day 1).
InFlags ==
    << << Line(A, Y1, Num(1), "TMAX", <<Fld(10), Field(Num(20), " ", "X")>>),
          Line(A, Y1, Num(2), "TMAX", <<Field(Num(11), "X", " "), Fld(21)>>) >> >>
\* A year that cannot be parsed.
InBadYear ==
    << << Line(A, Bad, Num(1), "TMAX", <<Fld(10)>>) >>,
       << Line(B, Y1, Num(1), "TMAX", <<Fld(11)>>) >> >>
\* A value that cannot be parsed, after one that can.
InBadValue ==
    << << Line(A, Y1, Num(1), "TMAX", <<Fld(10), Field(Bad, " ", " ")>>) >> >>
\* A value that cannot be parsed, with values and lines after it.
InBadMiddle ==
    << << Line(A, Y1, Num(1), "TMAX", <<Fld(10), Field(Bad, " ", " "), Fld(12)>>),
          Line(A, Y1, Num(2), "TMAX", <<Fld(13)>>) >>,
       << Line(B, Y1, Num(1), "TMAX", <<Fld(14)>>) >> >>
\* A file whose second line cannot be read (a read or decompression error).
InTruncated ==
    << << Line(A, Y1, Num(1), "TMAX", <<Fld(50)>>),
          Line(A, Y1, Num(2), "TMAX", <<Fld(51)>>) >>,
       << Line(B, Y1, Num(1), "TMAX", <<Fld(52)>>) >> >>
\* A file that cannot be opened.
InUnopenable ==
    << << Line(A, Y1, Num(1), "TMAX", <<Fld(60)>>) >>,
       << Line(B, Y1, Num(1), "TMAX", <<Fld(61)>>) >> >>
\* A year before the first year set up.
InEarlyYear ==
    << << Line(A, Num(FirstYear - 1), Num(1), "TMAX", <<Fld(10)>>) >> >>
\* No file at all.
InNone == << >>

InputSets ==
    {InOrder, InDuplicate, InThree, InWide, InFlags, InBadYear, InBadValue,
     InBadMiddle, InTruncated, InUnopenable, InEarlyYear, InNone}

\* The I/O failures met on an input directory, per file: 0 for none, -1 when
\* os.Open or gzip.NewReader fails, k when the k-th scanner.Scan() fails.
IOErrors(fs) ==
    IF fs = InTruncated THEN <<2, 0>>
    ELSE IF fs = InUnopenable THEN <<0, -1>>
    ELSE [w \in 1..Len(fs) |-> 0]

\* The lines given to the parser alone: every combination of value and flag
\* bytes over NumDays fields.
FieldSet ==
    {Field(v, m, q) : v \in {Num(67), Num(0), Num(-9999), Bad},
                      m \in {" ", "X"}, q \in {" ", "X"}}
ParserLines ==
    {Line(A, y, Num(6), el, F) :
        y \in {Y1, Bad}, el \in {"TMAX", "TMIN"},
        F \in [1..NumDays -> FieldSet]}

\* ------------------------------------------------------------------ state
VARIABLES
    files,      \* the input directory: the files in ReadDir order
    ioerr,      \* per file: 0, or -1 when it cannot be opened, or k when the
                \* k-th call of scanner.Scan() meets a read error
    sem_size,   \* capacity of sem
    buf_size,   \* flush threshold
    dpc,        \* the dispatching goroutine: "add", "acquire", "wait", "done"
    di,         \* index of the file the dispatcher is at
    wg,         \* the WaitGroup counter
    sem,        \* number of values in sem
    closed,     \* rec_chan is closed
    pc,         \* per file: where its processFile goroutine is
    ln,         \* per file: the next line the scanner returns
    outq,       \* per file: the records parse still has to send for its line
    panicking,  \* per file: the goroutine is panicking (its defers still run)
    open,       \* per file: fid and rdr are open
    mpc,        \* main: "recv", "flush", "returned", "sortwait", "exit"
    year_buf,   \* per year: the content of the bytes.Buffer
    year_gob,   \* per year: the encoder has sent its type descriptor
    stage,      \* per year: raw.bin, [exists, bytes]
    todo,       \* years the final flush loop has not visited yet
    spc,        \* per directory: where its doSortWrite goroutine is
    out,        \* per year: the content of ids.gz, values.gz, dates.gz
    outfiles,   \* per year: the output files present in the directory
    crashed,    \* the process died of a panic
    routed,     \* history: per year, the records the consumer received
    sent,       \* history: per file, the records its goroutine has sent
    nflush,     \* history: per year, the number of calls of flush
    users,      \* history: goroutines that touched year_buf, year_gob, raw.bin
    pline,      \* parser alone: the line
    pres,       \* parser alone: what parse did with it
    csv         \* gcos_monthly_concurrent: the lines written to the output file

pipe == <<files, ioerr, sem_size, buf_size, dpc, di, wg, sem, closed, pc, ln,
          outq, panicking, open, mpc, year_buf, year_gob, stage, todo, spc,
          out, outfiles, crashed, routed, sent, nflush, users>>
vars == <<pipe, pline, pres, csv>>

Workers == 1..Len(files)
NoLine == Line("", Bad, Bad, "", <<>>)
NotParsed == [done |-> FALSE, recs |-> <<>>, panic |-> FALSE]

\* setupYear: a new buffer, a new encoder, the directory, an empty raw.bin
setupYear == [buf |-> <<>>, typeSent |-> FALSE,
              file |-> [exists |-> TRUE, bytes |-> <<>>]]

\* processRaw up to the go statement of line 313
InitPipe ==
    /\ files \in InputSets
    /\ ioerr = IOErrors(files)
    /\ sem_size \in 1..MaxSem
    /\ buf_size \in 0..MaxBuf
    /\ dpc = IF Len(files) = 0 THEN "wait" ELSE "add"
    /\ di = 1
    /\ wg = 0
    /\ sem = 0
    /\ closed = FALSE
    /\ pc = [w \in Workers |-> "idle"]
    /\ ln = [w \in Workers |-> 1]
    /\ outq = [w \in Workers |-> <<>>]
    /\ panicking = [w \in Workers |-> FALSE]
    /\ open = [w \in Workers |-> FALSE]
    /\ mpc = "recv"
    /\ year_buf = [y \in Years |-> setupYear.buf]
    /\ year_gob = [y \in Years |-> setupYear.typeSent]
    /\ stage = [y \in Years |-> setupYear.file]
    /\ todo = {}
    /\ spc = [y \in Years |-> "idle"]
    /\ out = [y \in Years |-> NoOutput]
    /\ outfiles = [y \in Years |-> {}]
    /\ crashed = FALSE
    /\ routed = [y \in Years |-> <<>>]
    /\ sent = [w \in Workers |-> <<>>]
    /\ nflush = [y \in Years |-> 0]
    /\ users = {0}

Init == InitPipe /\ pline = NoLine /\ pres = NotParsed /\ csv = <<>>

\* --------------------------------------------------------- the dispatcher
\* sem <- true can proceed: the channel buffer has room
SemHasRoom_Unbounded == TRUE
SemHasRoom_OffByOne == sem < sem_size - 1
SemHasRoom == sem < sem_size

\* wg.Wait() returns: the counter is zero
WaitReturns_NoWait == TRUE
WaitReturns == wg = 0

\* wg.Add(1) for the file at di
DispatchAdd ==
    /\ ~crashed /\ mpc # "exit"
    /\ dpc = "add"
    /\ wg' = wg + 1
    /\ dpc' = "acquire"
    /\ UNCHANGED <<files, ioerr, sem_size, buf_size, di, sem, closed, pc, ln, outq,
                   panicking, open, mpc, year_buf, year_gob, stage, todo,
                   spc, out, outfiles, crashed, routed, sent, nflush, users, pline, pres, csv>>

\* sem <- true; go processFile(file); on to the next file or to wg.Wait()
DispatchGo ==
    /\ ~crashed /\ mpc # "exit"
    /\ dpc = "acquire"
    /\ SemHasRoom
    /\ sem' = sem + 1
    /\ pc' = [pc EXCEPT ![di] = "start"]
    /\ di' = di + 1
    /\ dpc' = IF di + 1 > Len(files) THEN "wait" ELSE "add"
    /\ UNCHANGED <<files, ioerr, sem_size, buf_size, wg, closed, ln, outq,
                   panicking, open, mpc, year_buf, year_gob, stage, todo,
                   spc, out, outfiles, crashed, routed, sent, nflush, users, pline, pres, csv>>

\* wg.Wait() returns; close(rec_chan)
DispatchClose ==
    /\ ~crashed /\ mpc # "exit"
    /\ dpc = "wait"
    /\ WaitReturns
    /\ closed' = TRUE
    /\ dpc' = "done"
    /\ UNCHANGED <<files, ioerr, sem_size, buf_size, di, wg, sem, pc, ln, outq,
                   panicking, open, mpc, year_buf, year_gob, stage, todo,
                   spc, out, outfiles, crashed, routed, sent, nflush, users, pline, pres, csv>>

\* ------------------------------------------------------------ processFile
\* os.Open and gzip.NewReader.  When one of them fails processFile panics:
\* of the deferred calls only the first (<-sem, wg.Done()) is relevant, no
\* reader is left open.
Open(w) ==
    /\ ~crashed /\ mpc # "exit"
    /\ pc[w] = "start"
    /\ IF ioerr[w] = -1
       THEN /\ panicking' = [panicking EXCEPT ![w] = TRUE]
            /\ pc' = [pc EXCEPT ![w] = "release"]
            /\ open' = open
       ELSE /\ open' = [open EXCEPT ![w] = TRUE]
            /\ pc' = [pc EXCEPT ![w] = "scan"]
            /\ panicking' = panicking
    /\ UNCHANGED <<files, ioerr, sem_size, buf_size, dpc, di, wg, sem, closed, ln,
                   outq, mpc, year_buf, year_gob, stage, todo,
                   spc, out, outfiles, crashed, routed, sent, nflush, users, pline, pres, csv>>

\* scanner.Scan() returns false: at the end of the file, or on a read error
\* (scanner.Err() is never looked at)
ScanEnds(w) == ln[w] > Len(files[w]) \/ ln[w] = ioerr[w]

\* scanner.Scan(): when it returns false the loop ends and the deferred
\* calls run; otherwise the line is skipped, or parsed up to its first send
\* (or to its panic, or to its end when it sends nothing).
Scan(w) ==
    /\ ~crashed /\ mpc # "exit"
    /\ pc[w] = "scan"
    /\ IF ScanEnds(w)
       THEN /\ pc' = [pc EXCEPT ![w] = "close"]
            /\ UNCHANGED <<ln, outq, panicking>>
       ELSE LET line == files[w][ln[w]] IN
            /\ ln' = [ln EXCEPT ![w] = ln[w] + 1]
            /\ IF ~ElementMatches(line)
               THEN UNCHANGED <<pc, outq, panicking>>
               ELSE LET p == parse(line) IN
                    /\ outq' = [outq EXCEPT ![w] = p.recs]
                    /\ panicking' = [panicking EXCEPT ![w] = p.panic]
                    /\ pc' = [pc EXCEPT ![w] =
                                IF p.recs # <<>> THEN "send"
                                ELSE IF p.panic THEN "close" ELSE "scan"]
    /\ UNCHANGED <<files, ioerr, sem_size, buf_size, dpc, di, wg, sem, closed, open,
                   mpc, year_buf, year_gob, stage, todo, spc, out, outfiles, crashed,
                   routed, sent, nflush, users, pline, pres, csv>>

\* year := r.Year, the partition a record is routed to
PartitionOf_Next(r) == r.Year + 1
PartitionOf(r) == r.Year

\* year_buf[year].Len() > buf_size
OverThreshold_OffByOne(n) == n > buf_size + 1
OverThreshold(n) == n > buf_size

\* The goroutine that runs the body of the loop over rec_chan
Consumer_Sender(w) == w
Consumer(w) == 0

\* rec_chan <- r in parse, met by the receive of the loop of processRaw, and
\* the body of that loop: Encode into the year's buffer, flush when the
\* buffer is longer than buf_size.  A send on a closed channel panics.
Send(w) ==
    /\ ~crashed /\ mpc # "exit"
    /\ pc[w] = "send"
    /\ IF closed
       THEN /\ crashed' = TRUE
            /\ UNCHANGED <<pc, outq, year_buf, year_gob, stage, routed, sent,
                           nflush, users>>
       ELSE /\ mpc = "recv"
            /\ LET r == Head(outq[w])
                   year == PartitionOf(r)
               IN
               /\ outq' = [outq EXCEPT ![w] = Tail(outq[w])]
               /\ sent' = [sent EXCEPT ![w] = Append(@, r)]
               /\ pc' = [pc EXCEPT ![w] =
                           IF Tail(outq[w]) # <<>> THEN "send"
                           ELSE IF panicking[w] THEN "close" ELSE "scan"]
               /\ IF year \notin Years
                  THEN /\ crashed' = TRUE
                       /\ UNCHANGED <<year_buf, year_gob, stage, routed,
                                      nflush, users>>
                  ELSE LET buf == year_buf[year] \o GobEncode(year_gob[year], r) IN
                       /\ crashed' = crashed
                       /\ year_gob' = [year_gob EXCEPT ![year] = TRUE]
                       /\ routed' = [routed EXCEPT ![year] = Append(@, r)]
                       /\ users' = users \cup {Consumer(w)}
                       /\ IF OverThreshold(Len(buf))
                          THEN /\ stage' = [stage EXCEPT ![year].bytes =
                                               FlushFile(@, buf)]
                               /\ year_buf' = [year_buf EXCEPT ![year] = FlushBuf(buf)]
                               /\ nflush' = [nflush EXCEPT ![year] = @ + 1]
                          ELSE /\ year_buf' = [year_buf EXCEPT ![year] = buf]
                               /\ UNCHANGED <<stage, nflush>>
    /\ UNCHANGED <<files, ioerr, sem_size, buf_size, dpc, di, wg, sem, closed, ln,
                   panicking, open, mpc, todo, spc, out, outfiles, pline, pres, csv>>

\* The deferred rdr.Close() and fid.Close()
Close(w) ==
    /\ ~crashed /\ mpc # "exit"
    /\ pc[w] = "close"
    /\ open' = [open EXCEPT ![w] = FALSE]
    /\ pc' = [pc EXCEPT ![w] = "release"]
    /\ UNCHANGED <<files, ioerr, sem_size, buf_size, dpc, di, wg, sem, closed, ln,
                   outq, panicking, mpc, year_buf, year_gob, stage, todo,
                   spc, out, outfiles, crashed, routed, sent, nflush, users, pline, pres, csv>>

\* The deferred <-sem
Release(w) ==
    /\ ~crashed /\ mpc # "exit"
    /\ pc[w] = "release"
    /\ sem' = sem - 1
    /\ pc' = [pc EXCEPT ![w] = "wgdone"]
    /\ UNCHANGED <<files, ioerr, sem_size, buf_size, dpc, di, wg, closed, ln, outq,
                   panicking, open, mpc, year_buf, year_gob, stage, todo,
                   spc, out, outfiles, crashed, routed, sent, nflush, users, pline, pres, csv>>

\* The deferred wg.Done(); a panicking goroutine has run its last deferred
\* call and is about to end the process.
Done(w) ==
    /\ ~crashed /\ mpc # "exit"
    /\ pc[w] = "wgdone"
    /\ wg' = wg - 1
    /\ pc' = [pc EXCEPT ![w] = IF panicking[w] THEN "fatal" ELSE "done"]
    /\ UNCHANGED <<files, ioerr, sem_size, buf_size, dpc, di, sem, closed, ln, outq,
                   panicking, open, mpc, year_buf, year_gob, stage, todo,
                   spc, out, outfiles, crashed, routed, sent, nflush, users, pline, pres, csv>>

\* The panic of a processFile goroutine ends the process; when main has
\* returned meanwhile, the runtime waits for the panic instead of exiting.
Fatal(w) ==
    /\ ~crashed
    /\ pc[w] = "fatal"
    /\ crashed' = TRUE
    /\ UNCHANGED <<files, ioerr, sem_size, buf_size, dpc, di, wg, sem, closed, pc,
                   ln, outq, panicking, open, mpc, year_buf, year_gob, stage,
                   todo, spc, out, outfiles, routed, sent, nflush, users, pline, pres, csv>>

\* ------------------------------------------------------- processRaw, main
\* The loop over rec_chan ends: the channel is closed
RecvClosed ==
    /\ ~crashed
    /\ mpc = "recv"
    /\ closed
    /\ mpc' = "flush"
    /\ todo' = DOMAIN year_buf
    /\ UNCHANGED <<files, ioerr, sem_size, buf_size, dpc, di, wg, sem, closed, pc,
                   ln, outq, panicking, open, year_buf, year_gob, stage, spc,
                   out, outfiles, crashed, routed, sent, nflush, users, pline, pres, csv>>

\* One round of "for year, _ := range year_buf { flush(year) }"
FinalFlush(y) ==
    /\ ~crashed
    /\ mpc = "flush"
    /\ y \in todo
    /\ todo' = todo \ {y}
    /\ stage' = [stage EXCEPT ![y].bytes = FlushFile(@, year_buf[y])]
    /\ year_buf' = [year_buf EXCEPT ![y] = FlushBuf(year_buf[y])]
    /\ nflush' = [nflush EXCEPT ![y] = @ + 1]
    /\ users' = users \cup {0}
    /\ UNCHANGED <<files, ioerr, sem_size, buf_size, dpc, di, wg, sem, closed, pc,
                   ln, outq, panicking, open, mpc, year_gob, spc, out, outfiles,
                   crashed, routed, sent, pline, pres, csv>>

\* The range loop over year_buf has visited every year
FlushLoopEnds_Early == TRUE
FlushLoopEnds == todo = {}

\* processRaw returns
ProcessRawReturn ==
    /\ ~crashed
    /\ mpc = "flush"
    /\ FlushLoopEnds
    /\ mpc' = "returned"
    /\ UNCHANGED <<files, ioerr, sem_size, buf_size, dpc, di, wg, sem, closed, pc,
                   ln, outq, panicking, open, year_buf, year_gob, stage,
                   todo, spc, out, outfiles, crashed, routed, sent, nflush, users, pline,
                   pres, csv>>

\* --------------------------------------------------- recsort, doSortWrite
\* What ioutil.ReadDir(out_path) can find besides the directories this run
\* set up: nothing, or a directory with a numeric name left there before the
\* run, which holds no raw.bin or a raw.bin that is not a gob stream.
StaleYear == FirstYear + NumYears
StaleDirs == {"none", "missing", "undecodable"}
StaleFile(st) ==
    IF st = "missing" THEN [exists |-> FALSE, bytes |-> <<>>]
    ELSE [exists |-> TRUE, bytes |-> <<ValueMsg(rec_t(A, StaleYear, 1, 1, 1))>>]

\* recsort up to wg.Wait(): the counter is reset, then one wg.Add(1) and one
\* go doSortWrite(year) per directory of out_path
Recsort ==
    /\ ~crashed
    /\ mpc = "returned"
    /\ \E st \in StaleDirs :
          LET dirs == IF st = "none" THEN Years ELSE Years \cup {StaleYear} IN
          /\ wg' = Cardinality(dirs)
          /\ spc' = [y \in dirs |-> "start"]
          /\ stage' = IF st = "none" THEN stage
                      ELSE [y \in dirs |-> IF y \in Years THEN stage[y]
                                           ELSE StaleFile(st)]
    /\ mpc' = "sortwait"
    /\ UNCHANGED <<files, ioerr, sem_size, buf_size, dpc, di, sem, closed, pc, ln,
                   outq, panicking, open, year_buf, year_gob, todo,
                   out, outfiles, crashed, routed, sent, nflush, users, pline, pres, csv>>

\* doSortWrite up to the three writes: open and decode raw.bin, sort, split
\* into columns, write the three files.  A missing or undecodable raw.bin
\* panics: the deferred wg.Done() runs and the process dies.
SortWrite(y) ==
    /\ ~crashed
    /\ y \in DOMAIN spc
    /\ spc[y] = "start"
    /\ LET dec == GobDecodeAll(stage[y].bytes) IN
       IF ~stage[y].exists \/ ~dec.ok
       THEN /\ crashed' = TRUE
            /\ wg' = wg - 1
            /\ spc' = [spc EXCEPT ![y] = "panic"]
            /\ UNCHANGED <<out, outfiles>>
       ELSE /\ out' = [out EXCEPT ![y] = Columns(SortRecs(dec.x))]
            /\ outfiles' = [outfiles EXCEPT ![y] = {"ids.gz", "values.gz", "dates.gz"}]
            /\ spc' = [spc EXCEPT ![y] = "written"]
            /\ UNCHANGED <<crashed, wg>>
    /\ UNCHANGED <<files, ioerr, sem_size, buf_size, dpc, di, sem, closed, pc, ln,
                   outq, panicking, open, mpc, year_buf, year_gob, stage,
                   todo, routed, sent, nflush, users, pline, pres, csv>>

\* os.Remove(raw.bin), then the deferred wg.Done()
SortRemove(y) ==
    /\ ~crashed
    /\ spc[y] = "written"
    /\ stage' = [stage EXCEPT ![y] = [exists |-> FALSE, bytes |-> <<>>]]
    /\ wg' = wg - 1
    /\ spc' = [spc EXCEPT ![y] = "done"]
    /\ UNCHANGED <<files, ioerr, sem_size, buf_size, dpc, di, sem, closed, pc, ln,
                   outq, panicking, open, mpc, year_buf, year_gob, todo, out, outfiles,
                   crashed, routed, sent, nflush, users, pline, pres, csv>>

\* wg.Wait() of recsort returns: the counter is zero
SortWaitReturns_NoWait == TRUE
SortWaitReturns == wg = 0

\* wg.Wait() of recsort returns, recsort and main return
RecsortReturn ==
    /\ ~crashed
    /\ mpc = "sortwait"
    /\ SortWaitReturns
    /\ mpc' = "exit"
    /\ UNCHANGED <<files, ioerr, sem_size, buf_size, dpc, di, wg, sem, closed, pc,
                   ln, outq, panicking, open, year_buf, year_gob, stage,
                   todo, spc, out, outfiles, crashed, routed, sent, nflush, users, pline,
                   pres, csv>>

Next ==
    \/ DispatchAdd
    \/ DispatchGo
    \/ DispatchClose
    \/ \E w \in Workers : Open(w)
    \/ \E w \in Workers : Scan(w)
    \/ \E w \in Workers : Send(w)
    \/ \E w \in Workers : Close(w)
    \/ \E w \in Workers : Release(w)
    \/ \E w \in Workers : Done(w)
    \/ \E w \in Workers : Fatal(w)
    \/ RecvClosed
    \/ \E y \in Years : FinalFlush(y)
    \/ ProcessRawReturn
    \/ Recsort
    \/ \E y \in Years \cup {StaleYear} : SortWrite(y)
    \/ \E y \in Years : SortRemove(y)
    \/ RecsortReturn

Spec == Init /\ [][Next]_vars

\* The steps of the ingest stage: the dispatching goroutine, the processFile
\* goroutines and the loop over rec_chan in processRaw
IngestStep ==
    \/ DispatchAdd
    \/ DispatchGo
    \/ DispatchClose
    \/ \E w \in Workers : Open(w) \/ Scan(w) \/ Send(w)
    \/ \E w \in Workers : Close(w) \/ Release(w) \/ Done(w)
    \/ RecvClosed

\* Input files that can all be read, whose lines of the element type parse
\* without a panic and hold only years that were set up
WellFormed ==
    \A w \in Workers :
        /\ ioerr[w] = 0
        /\ \A i \in DOMAIN files[w] :
              LET line == files[w][i] IN
              line.El = eltype =>
                  /\ ~parse(line).panic
                  /\ \A j \in DOMAIN parse(line).recs :
                        parse(line).recs[j].Year \in Years

\* The ingest stage alone on well-formed input files, up to the end of the
\* loop over rec_chan.  The Go scheduler runs every goroutine that can run;
\* the weakest statement of it is enough here: while some goroutine of the
\* ingest stage can take a step, a step of the ingest stage is eventually
\* taken.
InitFair == Init /\ WellFormed
FairSpec == InitFair /\ [][IngestStep]_vars /\ WF_vars(IngestStep)

\* ------------------------------------------------------- the parser alone
InitParser ==
    /\ pline \in ParserLines
    /\ pres = NotParsed
    /\ csv = <<>>
    /\ files = InNone
    /\ ioerr = IOErrors(InNone)
    /\ sem_size = 1
    /\ buf_size = 0
    /\ dpc = "wait"
    /\ di = 1
    /\ wg = 0
    /\ sem = 0
    /\ closed = FALSE
    /\ pc = [w \in {} |-> "idle"]
    /\ ln = [w \in {} |-> 1]
    /\ outq = [w \in {} |-> <<>>]
    /\ panicking = [w \in {} |-> FALSE]
    /\ open = [w \in {} |-> FALSE]
    /\ mpc = "recv"
    /\ year_buf = [y \in Years |-> setupYear.buf]
    /\ year_gob = [y \in Years |-> setupYear.typeSent]
    /\ stage = [y \in Years |-> setupYear.file]
    /\ todo = {}
    /\ spc = [y \in Years |-> "idle"]
    /\ out = [y \in Years |-> NoOutput]
    /\ outfiles = [y \in Years |-> {}]
    /\ crashed = FALSE
    /\ routed = [y \in Years |-> <<>>]
    /\ sent = [w \in {} |-> <<>>]
    /\ nflush = [y \in Years |-> 0]
    /\ users = {0}

\* processFile's test of the element type and, on a match, parse(line)
ParseLine ==
    /\ ~pres.done
    /\ pres' = IF ~ElementMatches(pline) THEN [NotParsed EXCEPT !.done = TRUE]
               ELSE LET p == parse(pline)
                    IN  [done |-> TRUE, recs |-> p.recs, panic |-> p.panic]
    /\ UNCHANGED <<pipe, pline, csv>>

SpecParser == InitParser /\ [][ParseLine]_vars

\* =================================================================== claims
\* The bag of the elements of a sequence
SeqBag(s) ==
    [e \in {s[i] : i \in DOMAIN s} |-> Cardinality({i \in DOMAIN s : s[i] = e})]

\* The records a file's goroutine sends, in order: the lines of the element
\* type read before an I/O failure, up to and including the part of a line
\* sent before a panic.
RECURSIVE EmittedFrom(_, _)
EmittedFrom(w, i) ==
    IF i > Len(files[w]) \/ i = ioerr[w] \/ ioerr[w] = -1 THEN <<>>
    ELSE IF files[w][i].El # eltype THEN EmittedFrom(w, i + 1)
    ELSE LET p == parse(files[w][i])
         IN  IF p.panic THEN p.recs ELSE p.recs \o EmittedFrom(w, i + 1)
RECURSIVE EmittedAll(_)
EmittedAll(w) ==
    IF w > Len(files) THEN <<>> ELSE EmittedFrom(w, 1) \o EmittedAll(w + 1)
\* The records of year y in the order of a run that reads one file at a time
ExpectedYear(y) == SelectSeq(EmittedAll(1), LAMBDA r : r.Year = y)

\* The composite key, compared as a tuple
KeyOf(id, date) == <<IdRank(id), date[1], date[2], date[3]>>
LexLess(k, l) ==
    \E i \in 1..4 : k[i] < l[i] /\ \A j \in 1..(i - 1) : k[j] = l[j]
RecKey(r) == KeyOf(r.Id, <<r.Year, r.Month, r.Day>>)
\* The observations an output triple describes, index by index
Triples(o) ==
    [i \in 1..Len(o.ids) |-> <<o.ids[i], o.dates[i], o.values[i]>>]
TripleOf(r) == <<r.Id, <<r.Year, r.Month, r.Day>>, r.Value>>
Written(y) == spc[y] \in {"written", "done"}

\* ----------------------------------------------------------------------- C1
\* processFile goroutines that were started and still hold their semaphore slot
Busy == {w \in Workers : pc[w] \in {"start", "scan", "send", "close", "release"}}
OpenFiles == {w \in Workers : open[w]}

\* C1: in every reachable state at most sem_size processFile goroutines are
\* started with their semaphore slot not yet released (no more than there are
\* values in sem, which holds at most sem_size), at most sem_size input
\* files are open, and a goroutine that has released its slot has closed its
\* readers before.
C1_BoundedOpenFiles ==
    /\ Cardinality(Busy) <= sem
    /\ sem <= sem_size
    /\ Cardinality(OpenFiles) <= sem_size
    /\ OpenFiles \subseteq Busy
    /\ \A w \in Workers : pc[w] \in {"release", "wgdone", "done", "fatal"} => ~open[w]

\* The pool is full of open files and the dispatcher waits for a slot.
C1_Witness ==
    /\ Cardinality(OpenFiles) = sem_size
    /\ dpc = "acquire"
    /\ sem = sem_size
    /\ \E w \in Workers : pc[w] = "wgdone"

\* ----------------------------------------------------------------------- C2
Finished(w) == pc[w] \in {"done", "fatal"}

\* C2: rec_chan is closed only when every file has been dispatched and its
\* processFile goroutine has finished, so no goroutine is at a send on the
\* closed channel; and the final flush runs only when the channel is closed
\* and no record is left to be received.
C2_CloseAfterWorkers ==
    /\ closed => /\ di > Len(files)
                 /\ \A w \in Workers : Finished(w) /\ outq[w] = <<>>
    /\ \A w \in Workers : pc[w] = "send" => ~closed
    /\ mpc \in {"flush", "returned"} =>
          /\ closed
          /\ \A w \in Workers : outq[w] = <<>>
          /\ \A y \in Years : SeqBag(routed[y]) = SeqBag(ExpectedYear(y))

\* The final flush is under way after several goroutines have sent records.
C2_Witness ==
    /\ mpc = "flush"
    /\ closed
    /\ Len(files) >= 2
    /\ \A w \in Workers : pc[w] = "done"
    /\ \E y \in Years : Len(routed[y]) >= 2

C4_StagedRoundTrip ==
    mpc = "returned" =>
        \A y \in Years :
            LET dec == GobDecodeAll(stage[y].bytes) IN
            /\ dec.ok
            /\ SeqBag(dec.x) = SeqBag(routed[y])
            /\ SeqBag(dec.x) = SeqBag(ExpectedYear(y))

\* A staging file written by a flush at the threshold and by the final flush.
C4_Witness ==
    /\ mpc = "returned"
    /\ buf_size > 0
    /\ \E y \in Years : nflush[y] >= 2 /\ Len(routed[y]) >= 3
                        /\ \E i \in DOMAIN routed[y] : routed[y][i].Value = 0

\* ----------------------------------------------------------------------- C5
\* C5: when processRaw returns every buffer is empty and the staging file of
\* each year holds, in the order received, every record the consumer received
\* for that year.
C5_FinalFlush ==
    mpc = "returned" =>
        \A y \in Years :
            /\ year_buf[y] = <<>>
            /\ stage[y].exists
            /\ GobDecodeAll(stage[y].bytes).ok
            /\ GobDecodeAll(stage[y].bytes).x = routed[y]

\* A year whose records never crossed the threshold: its only flush that
\* wrote anything is the final one.
C5_Witness ==
    /\ mpc = "returned"
    /\ \E y \in Years : /\ routed[y] # <<>>
                        /\ Len(routed[y]) + 1 <= buf_size
                        /\ nflush[y] = 1
                        /\ Len(stage[y].bytes) = Len(routed[y]) + 1

\* ----------------------------------------------------------------------- C6
\* C6: in every output triple written, the key (station id, year, month, day)
\* at each index is less than or equal to the key at the next index; and on
\* the records of the triple Less is the strict order of those keys.
C6_OutputSorted ==
    \A y \in Years :
        Written(y) =>
            /\ \A i \in 1..(Len(out[y].ids) - 1) :
                  ~LexLess(KeyOf(out[y].ids[i + 1], out[y].dates[i + 1]),
                           KeyOf(out[y].ids[i], out[y].dates[i]))
            /\ \A i, j \in DOMAIN routed[y] :
                  Less(routed[y][i], routed[y][j])
                     <=> LexLess(RecKey(routed[y][i]), RecKey(routed[y][j]))

\* An output of several records that did not arrive in key order.
C6_Witness ==
    \E y \in Years :
        /\ spc[y] = "written"
        /\ Len(out[y].ids) >= 4
        /\ \E i \in 1..(Len(routed[y]) - 1) :
              LexLess(RecKey(routed[y][i + 1]), RecKey(routed[y][i]))

\* ----------------------------------------------------------------------- C7
\* C7: the three sequences written for a year have the length of the slice
\* decoded from its staging file, and the triples (ids[i], dates[i],
\* values[i]) are, as a bag, the observations decoded.
C7_Aligned ==
    \A y \in Years :
        Written(y) =>
            /\ Len(out[y].ids) = Len(routed[y])
            /\ Len(out[y].dates) = Len(routed[y])
            /\ Len(out[y].values) = Len(routed[y])
            /\ spc[y] = "written" =>
                  Len(out[y].ids) = Len(GobDecodeAll(stage[y].bytes).x)
            /\ SeqBag(Triples(out[y]))
                  = SeqBag([i \in DOMAIN routed[y] |-> TripleOf(routed[y][i])])

\* An output whose order differs from the order of arrival, with different
\* values, months and days.
C7_Witness ==
    \E y \in Years :
        /\ spc[y] = "done"
        /\ Len(out[y].values) >= 3
        /\ Triples(out[y]) # [i \in DOMAIN routed[y] |-> TripleOf(routed[y][i])]
        /\ \E i \in DOMAIN out[y].dates : out[y].dates[i][2] # out[y].dates[i][3]

\* ----------------------------------------------------------------------- C8
\* The output of the run that receives the records in the order of the files
RefOut(y) == Columns(SortRecs(ExpectedYear(y)))
NoDupKeys(y) ==
    \A i, j \in DOMAIN ExpectedYear(y) :
        RecKey(ExpectedYear(y)[i]) = RecKey(ExpectedYear(y)[j]) => i = j

\* C8 as stated: every completed run writes, for every year, the triple the
\* run in file order writes, whatever the records.
C8_SameOutputAlways ==
    mpc = "exit" => \A y \in Years : out[y] = RefOut(y)

\* C8 as amended: every completed run writes the same ids and dates and the
\* same bag of observations; the values sequence too is the same for every
\* year in which no two records share station and date.
C8_SameOutputUpToTies ==
    mpc = "exit" =>
        \A y \in Years :
            /\ out[y].ids = RefOut(y).ids
            /\ out[y].dates = RefOut(y).dates
            /\ SeqBag(Triples(out[y])) = SeqBag(Triples(RefOut(y)))
            /\ NoDupKeys(y) => out[y] = RefOut(y)

\* A completed run with sem_size above 1 whose records arrived in another
\* order than the files'.
C8_Witness ==
    /\ mpc = "exit"
    /\ sem_size > 1
    /\ \E y \in Years : /\ NoDupKeys(y)
                        /\ Len(routed[y]) >= 3
                        /\ routed[y] # ExpectedYear(y)

\* ------------------------------------------------------------------ C9, C10
\* A line parse accepts: year, month and every value can be parsed
ValidLine(line) ==
    /\ line.Year.ok /\ line.Month.ok
    /\ \A k \in DOMAIN line.F : line.F[k].v.ok
\* The daily fields that hold a value and whose own quality flag (byte 6 of
\* the field) is blank
GoodDays(line) ==
    {k \in DOMAIN line.F : line.F[k].v.n # -9999 /\ line.F[k].q = " "}
DaysOf(recs) == {recs[i].Day : i \in DOMAIN recs}

\* C9 as stated: the number of observations emitted for a valid line equals
\* the number of its fields, when it is of the element type, that are not
\* missing and whose own quality flag is blank.
C9_CountsGoodFields ==
    (pres.done /\ ValidLine(pline)) =>
        Len(pres.recs) =
            IF pline.El = eltype THEN Cardinality(GoodDays(pline)) ELSE 0

\* The line with the flag bytes of day d replaced
WithFlags(line, d, m, q) ==
    [line EXCEPT !.F[d].m = m, !.F[d].q = q]

\* C10 as stated: setting the quality flag of day d of a valid line of the
\* element type suppresses day d and changes nothing about the other days.
C10_FlagIsLocal ==
    (pres.done /\ ValidLine(pline) /\ pline.El = eltype) =>
        \A d \in DOMAIN pline.F :
            LET flagged == parse(WithFlags(pline, d, pline.F[d].m, "X")).recs IN
            /\ d \notin DaysOf(flagged)
            /\ DaysOf(flagged) \ {d} = DaysOf(pres.recs) \ {d}

\* ---------------------------------------------------------------------- C11
\* A line of the element type with year and month in order and a value that
\* cannot be parsed; the first such value; whether parse gets to it
HasBadValue(line) ==
    /\ line.El = eltype /\ line.Year.ok /\ line.Month.ok
    /\ \E k \in DOMAIN line.F : ~line.F[k].v.ok
FirstBad(line) ==
    CHOOSE k \in DOMAIN line.F :
        ~line.F[k].v.ok /\ \A j \in 1..(k - 1) : line.F[j].v.ok
Scanned(w) == 1..(ln[w] - 1)

\* C11 as stated: a value that cannot be parsed is skipped, the goroutine
\* does not panic and goes on with the line and the file.
C11_BadValueSkipped ==
    \A w \in Workers : \A i \in Scanned(w) :
        HasBadValue(files[w][i]) => ~panicking[w]

\* C11 as amended: when parse gets to a value that cannot be parsed (byte 26
\* of the line is blank) it panics: of that line only the fields before the
\* value are sent, no later line of the file is read, the goroutine runs
\* its deferred calls and never ends normally.
C11_BadValuePanics ==
    \A w \in Workers : \A i \in Scanned(w) :
        LET line == files[w][i] IN
        (HasBadValue(line) /\ FlagByte(line, 26) = " ") =>
            /\ panicking[w]
            /\ ln[w] = i + 1
            /\ pc[w] \in {"send", "close", "release", "wgdone", "fatal"}
            /\ \A j \in DOMAIN (sent[w] \o outq[w]) :
                  LET r == (sent[w] \o outq[w])[j] IN
                  (r.Year = line.Year.n /\ r.Month = line.Month.n)
                      => r.Day < FirstBad(line)

\* The goroutine has sent the value before the bad one, has run its deferred
\* calls and is about to end the process, with a line and two fields unread.
C11_Witness ==
    \E w \in Workers :
        /\ pc[w] = "fatal"
        /\ Len(sent[w]) = 1
        /\ ln[w] <= Len(files[w])
        /\ HasBadValue(files[w][1])
        /\ FirstBad(files[w][1]) < Len(files[w][1].F)

\* ---------------------------------------------------------------------- C12
HasBadKey(line) ==
    line.El = eltype /\ (~line.Year.ok \/ ~line.Month.ok)

\* C12 as stated: once a line of the element type with an unparseable year
\* or month has been scanned, nothing of it is sent and the run never gets to
\* the sort-and-emit stage: no doSortWrite starts, no output file is written.
C12_BadKeyAborts ==
    \A w \in Workers : \A i \in Scanned(w) :
        HasBadKey(files[w][i]) =>
            /\ panicking[w] /\ ln[w] = i + 1 /\ outq[w] = <<>>
            /\ mpc \in {"recv", "flush", "returned"}
            /\ \A y \in Years : spc[y] = "idle" /\ outfiles[y] = {}

\* ---------------------------------------------------------------------- C13
\* C13 as stated: a run with an I/O failure on an input file does not
\* complete: main does not return with no goroutine panicking.
C13_IOFailureAborts ==
    (mpc = "exit" /\ \A w \in Workers : ~panicking[w]) =>
        \A w \in Workers : ioerr[w] = 0

\* ---------------------------------------------------------------------- C14
\* Every record the consumer received
Received == UNION {{sent[w][i] : i \in DOMAIN sent[w]} : w \in Workers}

\* C14 as stated: every record received, whatever its year, is appended to
\* the buffer of its year and the run goes on.
C14_AnyYearRoutes ==
    /\ \A r \in Received :
          \E y \in DOMAIN routed : \E j \in DOMAIN routed[y] : routed[y][j] = r
    /\ ~crashed

\* C14 as amended: the buffer and the empty staging file of every year from
\* the first to the last year set up exist before the ingest begins; a record
\* of one of these years is appended to the buffer of its year; a record of
\* any other year makes the consumer panic.
C14_SetUpYearsRoute ==
    LET range == FirstYear .. (FirstYear + NumYears - 1) IN
    /\ mpc = "recv" =>
          \A y \in range : /\ y \in DOMAIN year_buf
                           /\ y \in DOMAIN year_gob
                           /\ y \in DOMAIN stage
                           /\ stage[y].exists
                           /\ routed[y] = <<>> => stage[y].bytes = <<>>
    /\ \A r \in Received :
          IF r.Year \in range
          THEN /\ r.Year \in DOMAIN routed
               /\ \E j \in DOMAIN routed[r.Year] : routed[r.Year][j] = r
          ELSE crashed

\* Records of two years have been routed and the ingest goes on.
C14_Witness ==
    /\ mpc = "recv" /\ ~crashed
    /\ \E y, z \in Years : y # z /\ routed[y] # <<>> /\ routed[z] # <<>>
    /\ \E w \in Workers : pc[w] = "send"

\* ---------------------------------------------------------------------- C15
\* C15: when recsort has returned every doSortWrite has finished, every year
\* directory holds its three output files and no raw.bin; and at any time a
\* raw.bin that has been removed belongs to a year whose three files are
\* written.
C15_RecsortWaits ==
    /\ mpc = "exit" =>
          \A y \in Years : /\ spc[y] = "done"
                           /\ outfiles[y] = {"ids.gz", "values.gz", "dates.gz"}
                           /\ ~stage[y].exists
    /\ \A y \in Years :
          ~stage[y].exists => outfiles[y] = {"ids.gz", "values.gz", "dates.gz"}

\* recsort has returned with data in more than one year, after a state in
\* which one task was done and another not started.
C15_Witness ==
    /\ mpc = "exit"
    /\ \A w \in Workers : pc[w] = "done"
    /\ \E y, z \in Years : y # z /\ out[y].ids # <<>> /\ out[z].ids # <<>>

\* ---------------------------------------------------------------------- C16
\* C16: in a step of the consumer that appends a record to year y, when the
\* buffer with the record is longer than buf_size the whole buffer is
\* appended to raw.bin of y and the buffer is emptied, otherwise the buffer
\* keeps the record and raw.bin is untouched; the buffers and staging files
\* of all other years are unchanged.
C16_FlushFrame ==
    [][ \A y \in Years :
          (mpc = "recv" /\ routed'[y] # routed[y]) =>
             LET r == routed'[y][Len(routed'[y])]
                 appended == year_buf[y] \o GobEncode(year_gob[y], r)
             IN  /\ IF Len(appended) > buf_size
                    THEN /\ stage'[y].bytes = stage[y].bytes \o appended
                         /\ stage'[y].exists
                         /\ year_buf'[y] = <<>>
                         /\ nflush'[y] = nflush[y] + 1
                    ELSE /\ stage'[y] = stage[y]
                         /\ year_buf'[y] = appended
                         /\ nflush'[y] = nflush[y]
                 /\ \A z \in Years \ {y} :
                       /\ year_buf'[z] = year_buf[z]
                       /\ stage'[z] = stage[z]
                       /\ nflush'[z] = nflush[z] ]_vars

\* A flush at the threshold has emptied one year's buffer while another
\* year's buffer holds records.
C16_Witness ==
    /\ mpc = "recv"
    /\ buf_size > 0
    /\ \E y, z \in Years :
          /\ y # z
          /\ nflush[y] >= 1 /\ year_buf[y] = <<>> /\ stage[y].bytes # <<>>
          /\ year_buf[z] # <<>>

\* ---------------------------------------------------------------------- C17
RECURSIVE SumLen(_)
SumLen(Y) ==
    IF Y = {} THEN 0
    ELSE LET y == CHOOSE z \in Y : TRUE IN Len(year_buf[y]) + SumLen(Y \ {y})

\* C17: whenever the consumer is between two receives every buffer holds at
\* most buf_size, and all buffers together at most (number of years) x
\* buf_size.
C17_BufferBounded ==
    mpc = "recv" =>
        /\ \A y \in Years : Len(year_buf[y]) <= buf_size
        /\ SumLen(Years) <= Cardinality(Years) * buf_size

\* A buffer that is full to the threshold after an earlier flush.
C17_Witness ==
    /\ mpc = "recv"
    /\ \E y \in Years : /\ buf_size > 0
                        /\ Len(year_buf[y]) = buf_size
                        /\ nflush[y] >= 1
                        /\ Len(routed[y]) >= 4

\* ---------------------------------------------------------------------- C18
IsPrefix(s, t) == Len(s) <= Len(t) /\ SubSeq(t, 1, Len(s)) = s

\* C18: raw.bin is empty until the first flush; every step leaves a raw.bin
\* that exists either in place with its content kept as a prefix, a flush
\* adding exactly the buffer, or removed by the doSortWrite of its year after
\* the three outputs are written; a raw.bin removed does not come back.
C18_StagingGrows ==
    [][ \A y \in Years :
          /\ (nflush[y] = 0 /\ stage[y].exists) => stage[y].bytes = <<>>
          /\ (stage[y].exists /\ stage'[y].exists) =>
                /\ IsPrefix(stage[y].bytes, stage'[y].bytes)
                /\ stage'[y].bytes # stage[y].bytes =>
                      /\ nflush'[y] = nflush[y] + 1
                      /\ mpc \in {"recv", "flush"}
          /\ (stage[y].exists /\ ~stage'[y].exists) =>
                /\ spc[y] = "written" /\ spc'[y] = "done"
                /\ outfiles[y] = {"ids.gz", "values.gz", "dates.gz"}
          /\ ~stage[y].exists => ~stage'[y].exists ]_vars

\* A raw.bin written by two flushes that both added something.
C18_Witness ==
    \E y \in Years :
        /\ stage[y].exists
        /\ nflush[y] = 2
        /\ buf_size = 0
        /\ Len(stage[y].bytes) = 3
        /\ mpc = "recv"

\* ---------------------------------------------------------------------- C19
ValuesIn(bytes) ==
    {GobDecodeValue(bytes[i], ZeroRec) : i \in {j \in DOMAIN bytes : bytes[j].kind = "value"}}

\* C19: every record in the buffer of year y, in raw.bin of y and in the
\* output triple of y has Year y, and so has every record routed to y.
C19_PartitionPure ==
    \A y \in Years :
        /\ \A r \in ValuesIn(year_buf[y]) : r.Year = y
        /\ \A r \in ValuesIn(stage[y].bytes) : r.Year = y
        /\ \A i \in DOMAIN out[y].dates : out[y].dates[i][1] = y
        /\ \A i \in DOMAIN routed[y] : routed[y][i].Year = y

\* Two years hold records: one in its output triple, the other in raw.bin.
C19_Witness ==
    \E y, z \in Years :
        /\ y # z
        /\ out[y].ids # <<>>
        /\ spc[z] = "start" /\ ValuesIn(stage[z].bytes) # {}

\* ---------------------------------------------------------------------- C20
\* C20: every observation parse emits for an accepted line carries the
\* line's id, year and month, the number k of its field as day and the raw
\* value of that field divided by 10 (in tenths: the raw number); the days
\* come in increasing order and no field with raw value -9999 is emitted.
C20_FieldToObservation ==
    (pres.done /\ pline.El = eltype /\ ~pres.panic) =>
        /\ \A i \in DOMAIN pres.recs :
              LET r == pres.recs[i] IN
              /\ r.Day \in DOMAIN pline.F
              /\ r.Id = pline.Id
              /\ r.Year = pline.Year.n
              /\ r.Month = pline.Month.n
              /\ pline.F[r.Day].v.ok
              /\ 10 * r.Value = ParseFloat(pline.F[r.Day].v).n
              /\ pline.F[r.Day].v.n # -9999
        /\ \A i, j \in DOMAIN pres.recs : i < j => pres.recs[i].Day < pres.recs[j].Day

\* Day 1 is missing and day 2 is emitted, as day 2.
C20_Witness ==
    /\ pres.done
    /\ pline.F[1].v.n = -9999 /\ pline.F[1].v.ok
    /\ Len(pres.recs) >= 1
    /\ pres.recs[1].Day = 2
    /\ pres.recs[1].Value = 67

\* ---------------------------------------------------------------------- C21
\* C21: a line whose element type is not eltype is not parsed (a year or a
\* value that cannot be parsed does not make it panic) and sends nothing;
\* every line that sends an observation has element type eltype.
C21_OnlyElementType ==
    pres.done =>
        /\ pline.El # eltype => (pres.recs = <<>> /\ ~pres.panic)
        /\ pres.recs # <<>> => pline.El = eltype

\* A line of another element type that parse would have panicked on, and
\* that holds good values, has been skipped.
C21_Witness ==
    /\ pres.done
    /\ pline.El = "TMIN"
    /\ ~pline.Year.ok
    /\ pline.F[1] = Fld(67)
    /\ pres.recs = <<>> /\ ~pres.panic

\* ---------------------------------------------------------------------- C22
\* C22: on well-formed input files and with any sem_size from 1 on, under
\* fair scheduling rec_chan is eventually closed and the consumer loop is
\* eventually left: dispatcher, workers and consumer do not deadlock.
C22_IngestTerminates ==
    <>(closed /\ dpc = "done" /\ mpc # "recv"
       /\ \A w \in Workers : pc[w] = "done" /\ outq[w] = <<>>)

\* The ingest of more files than the semaphore has slots is over: the
\* dispatcher had to wait for a slot and every worker for the consumer.
C22_Witness ==
    /\ WellFormed
    /\ Len(files) > sem_size
    /\ closed /\ mpc = "flush"
    /\ \A w \in Workers : pc[w] = "done" /\ sent[w] # <<>>

\* ---------------------------------------------------------------------- C23
\* C23: once recsort has reset the WaitGroup (main is in or past its Wait)
\* and whenever a doSortWrite task has been started, the dispatching
\* goroutine's Wait has returned and rec_chan is closed, every processFile
\* goroutine has called wg.Done(), the final flush loop has visited every
\* year and every buffer is empty.
C23_SortAfterIngest ==
    (mpc \in {"sortwait", "exit"} \/ \E y \in DOMAIN spc : spc[y] # "idle") =>
        /\ mpc \in {"sortwait", "exit"}
        /\ dpc = "done" /\ closed
        /\ \A w \in Workers : pc[w] \in {"done", "fatal"}
        /\ todo = {}
        /\ \A y \in Years : year_buf[y] = <<>> /\ nflush[y] >= 1
        /\ \A y \in Years :
              spc[y] = "start" =>
                  SeqBag(GobDecodeAll(stage[y].bytes).x) = SeqBag(routed[y])

\* A doSortWrite task is about to read a raw.bin written by a threshold
\* flush and by the final flush, while another task has finished.
C23_Witness ==
    \E y, z \in Years :
        /\ y # z
        /\ spc[y] = "start" /\ nflush[y] >= 2 /\ Len(routed[y]) >= 3
        /\ spc[z] = "done"

\* ---------------------------------------------------------------------- C27
\* The raw.bin of directory y cannot be opened or cannot be decoded
BadStaging(y) == ~stage[y].exists \/ ~GobDecodeAll(stage[y].bytes).ok

LowQualityConcurrent(line, pos) == FlagByte(line, pos + 6) # " "
LowQualityMonthly(line, pos) == FlagByte(line, 26) # " "

\* The loop of parse from offset pos on: rec.Values (in tenths) and
\* rec.IsValid, and whether a value made it panic.  concurrent says which of
\* the two scripts parses.
RECURSIVE monthlyParseFrom(_, _, _)
monthlyParseFrom(line, pos, concurrent) ==
    IF pos >= LineLen(line)
    THEN [Values |-> <<>>, IsValid |-> <<>>, panic |-> FALSE]
    ELSE IF (IF concurrent THEN LowQualityConcurrent(line, pos)
                           ELSE LowQualityMonthly(line, pos))
    THEN LET rest == monthlyParseFrom(line, pos + 8, concurrent)
         IN  [Values |-> <<0>> \o rest.Values,
              IsValid |-> <<FALSE>> \o rest.IsValid, panic |-> rest.panic]
    ELSE LET v == ParseFloat(ValueText(line, pos)) IN
         IF ~v.ok THEN [Values |-> <<>>, IsValid |-> <<>>, panic |-> TRUE]
         ELSE LET rest == monthlyParseFrom(line, pos + 8, concurrent)
              IN  [Values |-> <<v.n>> \o rest.Values,
                   IsValid |-> <<TRUE>> \o rest.IsValid, panic |-> rest.panic]

\* parse of the two monthly scripts: the lrec_t, or a panic
monthlyParse(line, concurrent) ==
    LET year == Atoi(line.Year)
        month == Atoi(line.Month)
    IN  IF ~year.ok \/ ~month.ok
        THEN [Id |-> line.Id, Year |-> 0, Month |-> 0,
              Values |-> <<>>, IsValid |-> <<>>, panic |-> TRUE]
        ELSE LET p == monthlyParseFrom(line, 21, concurrent)
             IN  [Id |-> line.Id, Year |-> year.n, Month |-> month.n,
                  Values |-> p.Values, IsValid |-> p.IsValid, panic |-> p.panic]

\* The loop of summarize over the first j values: nvalid and sum (in tenths)
RECURSIVE sumValid(_, _)
sumValid(lrec, j) ==
    IF j = 0 THEN [nvalid |-> 0, sum |-> 0]
    ELSE LET prev == sumValid(lrec, j - 1) IN
         IF lrec.IsValid[j] /\ lrec.Values[j] # 10 * (-9999)
         THEN [nvalid |-> prev.nvalid + 1, sum |-> prev.sum + lrec.Values[j]]
         ELSE prev

\* summarize: the mean is sum / nvalid / 10, kept as a fraction of a sum in
\* tenths; with nvalid = 0 it is 0/0, a NaN
summarize(lrec) ==
    LET t == sumValid(lrec, Len(lrec.Values))
    IN  [Id |-> lrec.Id, Year |-> lrec.Year, Month |-> lrec.Month,
         Nvalid |-> t.nvalid, Mean |-> [num |-> t.sum, den |-> 100 * t.nvalid]]

\* The nearest whole number to num / den, the even one of two equally near
RoundHalfEven(num, den) ==
    LET q == num \div den
        r == num % den
    IN  IF 2 * r > den THEN q + 1
        ELSE IF 2 * r < den THEN q
        ELSE IF q % 2 = 0 THEN q ELSE q + 1

\* Sprintf("%s,%d,%d,%d,%.3f\n", ...): the five fields of the line, the
\* mean in thousandths or NaN
OutLine(mrec) ==
    [Id |-> mrec.Id, Year |-> mrec.Year, Month |-> mrec.Month,
     Nvalid |-> mrec.Nvalid,
     Mean |-> IF mrec.Mean.den = 0 THEN [nan |-> TRUE, milli |-> 0]
              ELSE [nan |-> FALSE,
                    milli |-> RoundHalfEven(1000 * mrec.Mean.num, mrec.Mean.den)]]
Header == "Id,Year,Month,Nvalid,Mean"

\* main of gcos_monthly_concurrent.go up to the loop over the files: outc is
\* made, the output file is created and the header is written
InitMonthly ==
    /\ files \in InputSets
    /\ ioerr = IOErrors(files)
    /\ sem_size \in 1..MaxSem
    /\ buf_size = 0
    /\ dpc = "idle"
    /\ di = 1
    /\ wg = 0
    /\ sem = 0
    /\ closed = FALSE
    /\ pc = [w \in Workers |-> "idle"]
    /\ ln = [w \in Workers |-> 1]
    /\ outq = [w \in Workers |-> <<>>]
    /\ panicking = [w \in Workers |-> FALSE]
    /\ open = [w \in Workers |-> FALSE]
    /\ mpc = "go"
    /\ year_buf = [y \in Years |-> setupYear.buf]
    /\ year_gob = [y \in Years |-> setupYear.typeSent]
    /\ stage = [y \in Years |-> setupYear.file]
    /\ todo = {}
    /\ spc = [y \in Years |-> "idle"]
    /\ out = [y \in Years |-> NoOutput]
    /\ outfiles = [y \in Years |-> {}]
    /\ crashed = FALSE
    /\ routed = [y \in Years |-> <<>>]
    /\ sent = [w \in Workers |-> <<>>]
    /\ nflush = [y \in Years |-> 0]
    /\ users = {0}
    /\ pline = NoLine
    /\ pres = NotParsed
    /\ csv = <<Header>>

\* What no step of gcos_monthly_concurrent touches
untouched == <<files, ioerr, sem_size, buf_size, sem, year_buf, year_gob, stage,
               todo, spc, out, outfiles, routed, nflush, pline, pres>>

\* The go statement of the loop over the files does not wait for anything
MonthlyCanStart_Sem == Cardinality({w \in Workers : pc[w] \notin {"idle", "done", "fatal"}}) < sem_size
MonthlyCanStart == TRUE

\* wg.Add(1); go processFile(file)
MonthlyGo ==
    /\ ~crashed
    /\ mpc = "go"
    /\ di <= Len(files)
    /\ MonthlyCanStart
    /\ wg' = wg + 1
    /\ pc' = [pc EXCEPT ![di] = "start"]
    /\ di' = di + 1
    /\ UNCHANGED <<untouched, dpc, closed, ln, outq, panicking, open, mpc,
                   crashed, sent, users, csv>>

\* After the loop: go func() { wg.Wait(); close(outc) }(), on to the loop
\* over outc
MonthlyGoCloser ==
    /\ ~crashed
    /\ mpc = "go"
    /\ di > Len(files)
    /\ dpc' = "wait"
    /\ mpc' = "recv"
    /\ UNCHANGED <<untouched, di, wg, closed, pc, ln, outq, panicking, open,
                   crashed, sent, users, csv>>

\* wg.Wait() of the closing goroutine returns: the counter is zero
MonthlyWaitReturns_NoWait == TRUE
MonthlyWaitReturns == wg = 0

\* wg.Wait() returns; close(outc)
MonthlyClose ==
    /\ ~crashed /\ mpc # "exit"
    /\ dpc = "wait"
    /\ MonthlyWaitReturns
    /\ closed' = TRUE
    /\ dpc' = "done"
    /\ UNCHANGED <<untouched, di, wg, pc, ln, outq, panicking, open, mpc,
                   crashed, sent, users, csv>>

\* os.Open and gzip.NewReader; on a failure the goroutine panics and runs
\* its one deferred call, wg.Done()
MonthlyOpen(w) ==
    /\ ~crashed /\ mpc # "exit"
    /\ pc[w] = "start"
    /\ IF ioerr[w] = -1
       THEN /\ panicking' = [panicking EXCEPT ![w] = TRUE]
            /\ pc' = [pc EXCEPT ![w] = "wgdone"]
            /\ open' = open
       ELSE /\ open' = [open EXCEPT ![w] = TRUE]
            /\ pc' = [pc EXCEPT ![w] = "scan"]
            /\ panicking' = panicking
    /\ UNCHANGED <<untouched, dpc, di, wg, closed, ln, outq, mpc, crashed,
                   sent, users, csv>>

\* scanner.Scan(): false at the end of the file or on a read error; else the
\* line is skipped, or parsed and summarized, or parse panics
MonthlyScan(w) ==
    /\ ~crashed /\ mpc # "exit"
    /\ pc[w] = "scan"
    /\ IF ln[w] > Len(files[w]) \/ ln[w] = ioerr[w]
       THEN /\ pc' = [pc EXCEPT ![w] = "close"]
            /\ UNCHANGED <<ln, outq, panicking>>
       ELSE LET line == files[w][ln[w]] IN
            /\ ln' = [ln EXCEPT ![w] = ln[w] + 1]
            /\ IF line.El # eltype
               THEN UNCHANGED <<pc, outq, panicking>>
               ELSE LET lrec == monthlyParse(line, TRUE) IN
                    IF lrec.panic
                    THEN /\ panicking' = [panicking EXCEPT ![w] = TRUE]
                         /\ pc' = [pc EXCEPT ![w] = "close"]
                         /\ outq' = outq
                    ELSE /\ outq' = [outq EXCEPT ![w] = <<summarize(lrec)>>]
                         /\ pc' = [pc EXCEPT ![w] = "send"]
                         /\ panicking' = panicking
    /\ UNCHANGED <<untouched, dpc, di, wg, closed, open, mpc, crashed, sent,
                   users, csv>>

\* The goroutine that writes the records to the output file
MonthlyWriter(w) == 0

\* outc <- mrec, met by the receive of main's loop, and the body of that
\* loop: Sprintf and wtr.Write.  A send on a closed channel panics.
MonthlySend(w) ==
    /\ ~crashed /\ mpc # "exit"
    /\ pc[w] = "send"
    /\ IF closed
       THEN /\ crashed' = TRUE
            /\ UNCHANGED <<pc, outq, sent, users, csv>>
       ELSE /\ mpc = "recv"
            /\ csv' = Append(csv, OutLine(Head(outq[w])))
            /\ sent' = [sent EXCEPT ![w] = Append(@, Head(outq[w]))]
            /\ outq' = [outq EXCEPT ![w] = Tail(outq[w])]
            /\ users' = users \cup {MonthlyWriter(w)}
            /\ pc' = [pc EXCEPT ![w] = "scan"]
            /\ crashed' = crashed
    /\ UNCHANGED <<untouched, dpc, di, wg, closed, ln, panicking, open, mpc>>

\* The deferred rdr.Close() and fid.Close()
MonthlyCloseFile(w) ==
    /\ ~crashed /\ mpc # "exit"
    /\ pc[w] = "close"
    /\ open' = [open EXCEPT ![w] = FALSE]
    /\ pc' = [pc EXCEPT ![w] = "wgdone"]
    /\ UNCHANGED <<untouched, dpc, di, wg, closed, ln, outq, panicking, mpc,
                   crashed, sent, users, csv>>

\* The deferred wg.Done()
MonthlyDone(w) ==
    /\ ~crashed /\ mpc # "exit"
    /\ pc[w] = "wgdone"
    /\ wg' = wg - 1
    /\ pc' = [pc EXCEPT ![w] = IF panicking[w] THEN "fatal" ELSE "done"]
    /\ UNCHANGED <<untouched, dpc, di, closed, ln, outq, panicking, open, mpc,
                   crashed, sent, users, csv>>

\* The panic of a processFile goroutine ends the process
MonthlyFatal(w) ==
    /\ ~crashed
    /\ pc[w] = "fatal"
    /\ crashed' = TRUE
    /\ UNCHANGED <<untouched, dpc, di, wg, closed, pc, ln, outq, panicking,
                   open, mpc, sent, users, csv>>

\* The loop over outc ends: the channel is closed; main returns
MonthlyReturn ==
    /\ ~crashed
    /\ mpc = "recv"
    /\ closed
    /\ mpc' = "exit"
    /\ UNCHANGED <<untouched, dpc, di, wg, closed, pc, ln, outq, panicking,
                   open, crashed, sent, users, csv>>

NextMonthly ==
    \/ MonthlyGo
    \/ MonthlyGoCloser
    \/ MonthlyClose
    \/ \E w \in Workers : MonthlyOpen(w)
    \/ \E w \in Workers : MonthlyScan(w)
    \/ \E w \in Workers : MonthlySend(w)
    \/ \E w \in Workers : MonthlyCloseFile(w)
    \/ \E w \in Workers : MonthlyDone(w)
    \/ \E w \in Workers : MonthlyFatal(w)
    \/ MonthlyReturn

SpecMonthly == InitMonthly /\ [][NextMonthly]_vars

\* ------------------------------------------------------- gcos_monthly.go
\* The non-concurrent script: main calls processFile for one file after the
\* other, and processFile writes a line for every line of the element type.
\* The lines written from line i of file w on, and whether the run panics.
RECURSIVE monthlyFrom(_, _)
monthlyFrom(w, i) ==
    IF w > Len(files) THEN [lines |-> <<>>, panic |-> FALSE]
    ELSE IF ioerr[w] = -1 THEN [lines |-> <<>>, panic |-> TRUE]
    ELSE IF i > Len(files[w]) \/ i = ioerr[w] THEN monthlyFrom(w + 1, 1)
    ELSE IF files[w][i].El # eltype THEN monthlyFrom(w, i + 1)
    ELSE LET lrec == monthlyParse(files[w][i], FALSE) IN
         IF lrec.panic THEN [lines |-> <<>>, panic |-> TRUE]
         ELSE LET rest == monthlyFrom(w, i + 1)
              IN  [lines |-> <<OutLine(summarize(lrec))>> \o rest.lines,
                   panic |-> rest.panic]
gcos_monthly == monthlyFrom(1, 1)

\* ---------------------------------------------------------------------- C24
\* The lines of the element type among the first n lines of file w
RECURSIVE MatchingLines(_, _)
MatchingLines(w, n) ==
    IF n = 0 THEN <<>>
    ELSE IF files[w][n].El = eltype
         THEN Append(MatchingLines(w, n - 1), files[w][n])
         ELSE MatchingLines(w, n - 1)
\* The records sent by the goroutines of files w, w+1, ...
RECURSIVE SentFrom(_)
SentFrom(w) == IF w > Len(files) THEN <<>> ELSE sent[w] \o SentFrom(w + 1)
OutLines(recs) == [i \in DOMAIN recs |-> OutLine(recs[i])]

\* C24: outc is closed only when every processFile goroutine has called
\* wg.Done(), no goroutine is left to send on the closed channel, and the
\* output file holds the header and then, written by main alone, the lines
\* of the records sent, each once; a goroutine makes one record, with the
\* line's id, year and month, for every line of the element type its scanner
\* returns, so that a run that ends without a panic has written exactly one
\* line for each of them.
C24_OneRecordPerLine ==
    /\ closed => (wg = 0 /\ \A w \in Workers : pc[w] \in {"done", "fatal"})
    /\ \A w \in Workers : pc[w] = "send" => ~closed
    /\ csv[1] = Header
    /\ users = {0}
    /\ SeqBag(Tail(csv)) = SeqBag(OutLines(SentFrom(1)))
    /\ \A w \in Workers :
          LET M == MatchingLines(w, ln[w] - 1)
              made == sent[w] \o outq[w]
              lost == IF panicking[w] /\ ioerr[w] # -1 THEN 1 ELSE 0
          IN  /\ Len(made) + lost = Len(M)
              /\ \A k \in DOMAIN made :
                    /\ made[k].Id = M[k].Id
                    /\ made[k].Year = M[k].Year.n
                    /\ made[k].Month = M[k].Month.n
    /\ (mpc = "exit" /\ \A w \in Workers : ~panicking[w]) =>
          \A w \in Workers :
              /\ pc[w] = "done" /\ outq[w] = <<>>
              /\ ln[w] > Len(files[w]) \/ ln[w] = ioerr[w]

\* A run over two files, with a line of another element type among five,
\* has returned with the header and four lines.
C24_Witness ==
    /\ mpc = "exit"
    /\ Len(files) = 2
    /\ \A w \in Workers : ~panicking[w] /\ ioerr[w] = 0 /\ sent[w] # <<>>
    /\ \E w \in Workers : Len(MatchingLines(w, Len(files[w]))) < Len(files[w])
    /\ Len(csv) = 5

\* ---------------------------------------------------------------------- C25
\* processFile goroutines that were started and have not ended
MonthlyBusy == {w \in Workers : pc[w] \notin {"idle", "done", "fatal"}}

\* C25 as stated: the number of files in process at the same time never
\* exceeds the size of a semaphore.
C25_MonthlyBounded == Cardinality(MonthlyBusy) <= sem_size

\* C25 as amended: gcos_monthly_concurrent has no semaphore; the go
\* statement of main's loop never waits, every goroutine is started before
\* main receives the first record, and the number of files in process is
\* bounded by the number of input files only.
C25_FanOutUnbounded ==
    /\ sem = 0
    /\ (~crashed /\ mpc = "go" /\ di <= Len(files)) => ENABLED MonthlyGo
    /\ mpc # "go" => \A w \in Workers : pc[w] # "idle"
    /\ Cardinality(MonthlyBusy) <= Len(files)
    /\ wg = Cardinality({w \in Workers : pc[w] \in {"start", "scan", "send", "close", "wgdone"}})

\* Three input files are open at the same time.
C25_Witness ==
    /\ Len(files) = 3
    /\ \A w \in Workers : open[w] /\ pc[w] = "send"
    /\ sem_size < Len(files)

\* ---------------------------------------------------------------------- C26
\* C26 as stated: when both scripts run to their end on the same input files
\* without a panic, the lines after the header of the concurrent script are,
\* as a bag, the lines after the header of gcos_monthly.
C26_SameSummaries ==
    (mpc = "exit" /\ (\A w \in Workers : ~panicking[w]) /\ ~gcos_monthly.panic) =>
        SeqBag(Tail(csv)) = SeqBag(gcos_monthly.lines)

====
